---- MODULE Spec2Model ----
(***************************************************************************)
(* A model of the quantum register simulator: the Steane stabilizer code   *)
(* with its precomputed recovery table (quantum/error_correction.rs), the  *)
(* amplitude state with its gates and stabilizer probe (quantum/state.rs)  *)
(* and the noise channel (quantum/noise.rs).                               *)
(*                                                                         *)
(* Amplitudes are kept exact: the vector is a function from basis index to *)
(* a Gaussian integer <<re, im>>, and the record field `scale` holds the   *)
(* common denominator, so that amplitude i is amplitudes[i] / sqrt(scale). *)
(* `nan` records that a division 0.0 / 0.0 has produced NaN entries.       *)
(***************************************************************************)
EXTENDS Integers, Sequences, FiniteSets, TLC

VARIABLES recovery_lookup, loop_i, qs, noise_model, ret, ops

vars == <<recovery_lookup, loop_i, qs, noise_model, ret, ops>>

(***************************************************************************)
(* Small helpers.                                                          *)
(***************************************************************************)
RECURSIVE Pow2(_)
Pow2(k) == IF k = 0 THEN 1 ELSE 2 * Pow2(k - 1)

Xor(a, b) == a # b

RECURSIVE ConcatAll(_)
ConcatAll(ss) == IF ss = <<>> THEN <<>> ELSE Head(ss) \o ConcatAll(Tail(ss))

Max(S) == CHOOSE m \in S : \A x \in S : x <= m

\* The element of a one-element set: The({F(x) : x \in {e}}) is F(e) with e
\* evaluated once, which is how every intermediate value below is bound.
The(S) == CHOOSE x \in S : TRUE

(***************************************************************************)
(* PauliOperator, Stabilizer and the Steane code's description.            *)
(***************************************************************************)
PauliOperator == {"X", "Y", "Z"}

\* Stabilizer::new(vec![(q, P), ...]) for the same Pauli P on four qubits.
Stabilizer(qubits, pauli) == [k \in 1..Len(qubits) |-> <<qubits[k], pauli>>]

stabilizers ==
    << Stabilizer(<<0, 2, 4, 6>>, "X"),
       Stabilizer(<<1, 3, 5, 6>>, "X"),
       Stabilizer(<<0, 2, 4, 6>>, "Z"),
       Stabilizer(<<1, 3, 5, 6>>, "Z") >>

logical_operators ==
    << Stabilizer(<<0, 1, 2, 3>>, "X"),
       Stabilizer(<<0, 1, 2, 3>>, "Z") >>

distance == 3

\* The number of qubits the code's generators act on (indices 0..6).
CodeQubits ==
    1 + Max(UNION {{stabilizers[s][k][1] : k \in 1..Len(stabilizers[s])} :
                   s \in 1..Len(stabilizers)})

(***************************************************************************)
(* QuantumError as a Pauli pattern: a function from the qubits that carry  *)
(* an error to the Pauli applied there; absent qubits are the identity.    *)
(***************************************************************************)
NoError == [q \in {} |-> "X"]

add_pauli(error, pos, pauli) ==
    [q \in DOMAIN error \cup {pos} |-> IF q = pos THEN pauli ELSE error[q]]

has_pauli(error, qubit) == qubit \in DOMAIN error

\* RecoveryOperation::from_error: the recovery applies the same Paulis.
from_error(error) == error

Weight(error) == Cardinality(DOMAIN error)

(***************************************************************************)
(* itertools: combinations and combinations_with_replacement of lo..n-1,   *)
(* t at a time, in the lexicographic order the iterators yield.            *)
(***************************************************************************)
RECURSIVE combinations(_, _, _)
combinations(lo, n, t) ==
    IF t = 0 THEN << <<>> >>
    ELSE IF lo >= n THEN <<>>
    ELSE LET with == combinations(lo + 1, n, t - 1)
         IN  [k \in 1..Len(with) |-> <<lo>> \o with[k]]
             \o combinations(lo + 1, n, t)

RECURSIVE combinations_with_replacement(_, _, _)
combinations_with_replacement(lo, n, t) ==
    IF t = 0 THEN << <<>> >>
    ELSE IF lo >= n THEN <<>>
    ELSE LET with == combinations_with_replacement(lo, n, t - 1)
         IN  [k \in 1..Len(with) |-> <<lo>> \o with[k]]
             \o combinations_with_replacement(lo + 1, n, t)

PauliOfType(err_type) ==
    IF err_type = 0 THEN "X" ELSE IF err_type = 1 THEN "Y" ELSE "Z"

\* The inner loop: zip the positions with the error types and add each Pauli.
RECURSIVE ZipError(_, _, _)
ZipError(error, positions, error_types) ==
    IF positions = <<>> \/ error_types = <<>> THEN error
    ELSE ZipError(add_pauli(error, Head(positions), PauliOfType(Head(error_types))),
                  Tail(positions), Tail(error_types))

ErrorsOfWeight(t) ==
    LET pos == combinations(0, Len(stabilizers), t)
        typ == combinations_with_replacement(0, 3, t)
    IN  ConcatAll([p \in 1..Len(pos) |->
                     [e \in 1..Len(typ) |-> ZipError(NoError, pos[p], typ[e])]])

\* A faulty enumerate_likely_errors whose weight loop starts at 1.
enumerate_from_weight_one ==
    ConcatAll([t \in 1..(distance - 1) |-> ErrorsOfWeight(t)])

enumerate_likely_errors ==
    ConcatAll([t \in 1..distance |-> ErrorsOfWeight(t - 1)])

(***************************************************************************)
(* Syndrome of a hypothesized error, as the code computes it.              *)
(***************************************************************************)
commutes(a, b) == a = b

RECURSIVE StabilizerParity(_, _, _)
StabilizerParity(ops_left, error, parity) ==
    IF ops_left = <<>> THEN parity
    ELSE LET qubit == Head(ops_left)[1]
             pauli == Head(ops_left)[2]
         IN  StabilizerParity(
                 Tail(ops_left), error,
                 IF has_pauli(error, qubit)
                 THEN Xor(parity, commutes(pauli, error[qubit]))
                 ELSE parity)

compute_syndrome_for_error(error) ==
    [i \in 1..Len(stabilizers) |->
        IF StabilizerParity(stabilizers[i], error, FALSE) THEN 1 ELSE 0]

(***************************************************************************)
(* ErrorSyndrome: `size` booleans, and its conversion to the table's key.  *)
(***************************************************************************)
ErrorSyndrome_new(size) == [bits |-> [k \in 1..size |-> FALSE], size |-> size]

set_bit(syndrome, index, value) ==
    IF index < syndrome.size
    THEN [syndrome EXCEPT !.bits[index + 1] = value]
    ELSE syndrome

to_bitvec(syndrome) ==
    [k \in 1..Len(syndrome.bits) |-> IF syndrome.bits[k] THEN 1 ELSE 0]

(***************************************************************************)
(* Results: Ok(value) and Err(error).                                      *)
(***************************************************************************)
Ok(v) == [ok |-> TRUE, value |-> v]
Err(e) == [ok |-> FALSE, err |-> e]

(***************************************************************************)
(* ErrorCorrectionCode: the recovery table and its lookup.                 *)
(***************************************************************************)
EmptyLookup == [key \in {} |-> NoError]

\* A faulty compute_recovery_operation that answers an absent syndrome with
\* the identity recovery instead of failing.
compute_recovery_or_identity(lookup, syndrome) ==
    LET syndrome_bits == to_bitvec(syndrome)
    IN  IF syndrome_bits \in DOMAIN lookup
        THEN Ok(lookup[syndrome_bits])
        ELSE Ok(NoError)

compute_recovery_operation(lookup, syndrome) ==
    LET syndrome_bits == to_bitvec(syndrome)
    IN  IF syndrome_bits \in DOMAIN lookup
        THEN Ok(lookup[syndrome_bits])
        ELSE Err("UnknownSyndrome")

\* A faulty loop body that inserts without the contains_key test.
precompute_always_insert(lookup, error) ==
    The({[key \in DOMAIN lookup \cup {syndrome} |->
             IF key = syndrome THEN from_error(error) ELSE lookup[key]] :
         syndrome \in {compute_syndrome_for_error(error)}})

\* One iteration of the loop of precompute_recovery_operations.
precompute_step(lookup, error) ==
    The({IF syndrome \notin DOMAIN lookup
         THEN [key \in DOMAIN lookup \cup {syndrome} |->
                  IF key = syndrome THEN from_error(error) ELSE lookup[key]]
         ELSE lookup :
         syndrome \in {compute_syndrome_for_error(error)}})

\* The loop over all_errors[lo..hi], run by halves from the table `lookup`.
RECURSIVE PrecomputeLoop(_, _, _)
PrecomputeLoop(lookup, lo, hi) ==
    IF lo > hi THEN lookup
    ELSE IF lo = hi THEN precompute_step(lookup, enumerate_likely_errors[lo])
    ELSE The({PrecomputeLoop(half, (lo + hi) \div 2 + 1, hi) :
              half \in {PrecomputeLoop(lookup, lo, (lo + hi) \div 2)}})

\* The table new_steane_code returns.
precompute_recovery_operations ==
    PrecomputeLoop(EmptyLookup, 1, Len(enumerate_likely_errors))

(***************************************************************************)
(* QuantumState: complex arithmetic on Gaussian integers and the gates.    *)
(***************************************************************************)
CZero == <<0, 0>>
CAdd(a, b) == <<a[1] + b[1], a[2] + b[2]>>
CNeg(a) == <<0 - a[1], 0 - a[2]>>
CSub(a, b) == CAdd(a, CNeg(b))
CMulI(a) == <<0 - a[2], a[1]>>
norm_sqr(a) == a[1] * a[1] + a[2] * a[2]

\* a * i^quarter, the phase factor e^(i phi) for phi = quarter * pi/2.
RECURSIVE CMulIPow(_, _)
CMulIPow(a, quarter) == IF quarter = 0 THEN a ELSE CMulIPow(CMulI(a), quarter - 1)

Bit(i, k) == (i \div Pow2(k)) % 2
Flip(i, k) == IF Bit(i, k) = 0 THEN i + Pow2(k) ELSE i - Pow2(k)

\* The sum of norm_sqr over the entries lo..hi, by halves.
RECURSIVE SumSqOver(_, _, _)
SumSqOver(amplitudes, lo, hi) ==
    IF lo > hi THEN 0
    ELSE IF lo = hi THEN norm_sqr(amplitudes[lo])
    ELSE SumSqOver(amplitudes, lo, (lo + hi) \div 2)
         + SumSqOver(amplitudes, (lo + hi) \div 2 + 1, hi)

SumSq(amplitudes) == SumSqOver(amplitudes, 0, Cardinality(DOMAIN amplitudes) - 1)

\* The same vector with the common factor 2 taken out of the representation.
RECURSIVE Reduced(_)
Reduced(st) ==
    IF /\ st.scale % 4 = 0
       /\ \A i \in DOMAIN st.amplitudes :
             st.amplitudes[i][1] % 2 = 0 /\ st.amplitudes[i][2] % 2 = 0
    THEN The({Reduced(half) :
              half \in {[st EXCEPT
                           !.amplitudes = [i \in DOMAIN st.amplitudes |->
                                             <<st.amplitudes[i][1] \div 2,
                                               st.amplitudes[i][2] \div 2>>],
                           !.scale = st.scale \div 4]}})
    ELSE st

QuantumState_new(num_qubits) ==
    [amplitudes |-> [i \in 0..(Pow2(num_qubits) - 1) |->
                        IF i = 0 THEN <<1, 0>> ELSE CZero],
     scale |-> 1,
     nan |-> FALSE,
     num_qubits |-> num_qubits,
     measurement_history |-> <<>>]

Unit == "()"
Done(st) == [state |-> st, result |-> Ok(Unit)]
Fail(st, e) == [state |-> st, result |-> Err(e)]

apply_hadamard(st, target) ==
    The({Done(Reduced(mixed)) :
         mixed \in {[st EXCEPT
            !.amplitudes = [i \in DOMAIN st.amplitudes |->
                IF Bit(i, target) = 0
                THEN CAdd(st.amplitudes[i], st.amplitudes[Flip(i, target)])
                ELSE CSub(st.amplitudes[Flip(i, target)], st.amplitudes[i])],
            !.scale = 2 * st.scale]}})

apply_pauli_x(st, target) ==
    Done([st EXCEPT !.amplitudes =
            [i \in DOMAIN st.amplitudes |-> st.amplitudes[Flip(i, target)]]])

apply_pauli_y(st, target) ==
    Done([st EXCEPT !.amplitudes =
            [i \in DOMAIN st.amplitudes |->
                IF Bit(i, target) = 1
                THEN CMulI(st.amplitudes[Flip(i, target)])
                ELSE CNeg(CMulI(st.amplitudes[Flip(i, target)]))]])

apply_pauli_z(st, target) ==
    Done([st EXCEPT !.amplitudes =
            [i \in DOMAIN st.amplitudes |->
                IF Bit(i, target) = 1 THEN CNeg(st.amplitudes[i])
                ELSE st.amplitudes[i]]])

apply_phase(st, target, phi) ==
    Done([st EXCEPT !.amplitudes =
            [i \in DOMAIN st.amplitudes |->
                IF Bit(i, target) = 1 THEN CMulIPow(st.amplitudes[i], phi)
                ELSE st.amplitudes[i]]])

apply_cnot(st, control, target) ==
    IF control >= st.num_qubits THEN Fail(st, "InvalidQubitIndex")
    ELSE Done([st EXCEPT !.amplitudes =
            [i \in DOMAIN st.amplitudes |->
                IF Bit(i, control) = 1 THEN st.amplitudes[Flip(i, target)]
                ELSE st.amplitudes[i]]])

Gate(kind) == [kind |-> kind]
Phase(phi) == [kind |-> "Phase", phi |-> phi]
CNOT(control) == [kind |-> "CNOT", control |-> control]

ApplyKind(st, gate, target) ==
    CASE gate.kind = "Hadamard" -> apply_hadamard(st, target)
      [] gate.kind = "PauliX" -> apply_pauli_x(st, target)
      [] gate.kind = "PauliY" -> apply_pauli_y(st, target)
      [] gate.kind = "PauliZ" -> apply_pauli_z(st, target)
      [] gate.kind = "Phase" -> apply_phase(st, target, gate.phi)
      [] gate.kind = "CNOT" -> apply_cnot(st, gate.control, target)

\* A faulty apply_gate that answers Ok(()) for a target out of range.
apply_gate_ok_out_of_range(st, gate, target) ==
    IF target >= st.num_qubits THEN Done(st)
    ELSE ApplyKind(st, gate, target)

apply_gate(st, gate, target) ==
    IF target >= st.num_qubits THEN Fail(st, "InvalidQubitIndex")
    ELSE ApplyKind(st, gate, target)

(***************************************************************************)
(* The stabilizer probe and the correction pipeline.                       *)
(***************************************************************************)
\* Re(sum conj(a1) * a2), times the (positive) product of the two scales.
\* The entries lo..hi are summed by halves.
RECURSIVE OverlapRe(_, _, _, _)
OverlapRe(a, b, lo, hi) ==
    IF lo > hi THEN 0
    ELSE IF lo = hi THEN a[lo][1] * b[lo][1] + a[lo][2] * b[lo][2]
    ELSE OverlapRe(a, b, lo, (lo + hi) \div 2)
         + OverlapRe(a, b, (lo + hi) \div 2 + 1, hi)

\* compute_overlap: nan for a NaN sum; otherwise the sign of the real part.
compute_overlap(st, other) ==
    IF st.num_qubits # other.num_qubits THEN Err("DimensionMismatch")
    ELSE Ok([nan |-> st.nan \/ other.nan,
             re |-> OverlapRe(st.amplitudes, other.amplitudes,
                              0, Cardinality(DOMAIN st.amplitudes) - 1)])

PauliGate(pauli) ==
    IF pauli = "X" THEN Gate("PauliX")
    ELSE IF pauli = "Y" THEN Gate("PauliY") ELSE Gate("PauliZ")

\* The loop of measure_stabilizer over the stabilizer's Paulis, on `state`.
RECURSIVE ApplyStabilizer(_, _)
ApplyStabilizer(state, ops_left) ==
    IF ops_left = <<>> THEN Done(state)
    ELSE The({IF r.result.ok THEN ApplyStabilizer(r.state, Tail(ops_left)) ELSE r :
              r \in {apply_gate(state, PauliGate(Head(ops_left)[2]),
                                Head(ops_left)[1])}})

\* A faulty measure_stabilizer that applies the Paulis to self, not to a clone.
measure_stabilizer_in_place(self, stabilizer) ==
    The({IF ~applied.result.ok
         THEN [self |-> applied.state, result |-> applied.result]
         ELSE The({[self |-> applied.state,
                    result |-> IF ~overlap.ok THEN overlap
                               ELSE Ok(~overlap.value.nan /\ overlap.value.re > 0)] :
                   overlap \in {compute_overlap(applied.state, applied.state)}}) :
         applied \in {ApplyStabilizer(self, stabilizer)}})

\* measure_stabilizer: `state` is the clone; `self` is what the caller keeps.
measure_stabilizer(self, stabilizer) ==
    The({IF ~applied.result.ok
         THEN [self |-> self, result |-> applied.result]
         ELSE The({[self |-> self,
                    result |-> IF ~overlap.ok THEN overlap
                               ELSE Ok(~overlap.value.nan /\ overlap.value.re > 0)] :
                   overlap \in {compute_overlap(applied.state, self)}}) :
         applied \in {ApplyStabilizer(self, stabilizer)}})

\* The loop of compute_error_syndrome from stabilizer i on.
RECURSIVE SyndromeLoop(_, _, _, _)
SyndromeLoop(self, stabs, i, syndrome) ==
    IF i >= Len(stabs) THEN [self |-> self, result |-> Ok(syndrome)]
    ELSE The({IF ~m.result.ok THEN m
              ELSE The({SyndromeLoop(m.self, stabs, i + 1, next) :
                        next \in {set_bit(syndrome, i, m.result.value)}}) :
              m \in {measure_stabilizer(self, stabs[i + 1])}})

compute_error_syndrome(self, code) ==
    SyndromeLoop(self, code.stabilizers, 0, ErrorSyndrome_new(Len(code.stabilizers)))

\* apply_recovery_operation: each Pauli of the recovery, in qubit order.
RECURSIVE apply_recovery_operation(_, _)
apply_recovery_operation(st, correction) ==
    IF DOMAIN correction = {} THEN Done(st)
    ELSE The({The({IF ~r.result.ok THEN r
                   ELSE The({apply_recovery_operation(r.state, rest) :
                             rest \in {[q \in DOMAIN correction \ {qubit} |->
                                          correction[q]]}}) :
                   r \in {apply_gate(st, PauliGate(correction[qubit]), qubit)}}) :
              qubit \in {q \in DOMAIN correction :
                           \A other \in DOMAIN correction : q <= other}})

\* A faulty apply_error_correction whose failing paths hand back the state
\* with the Paulis of the first stabilizer applied, as a probe working on
\* self would leave it.
apply_error_correction_on_probed(self, code) ==
    The({IF ~syndrome.result.ok
         THEN [state |-> probed.state, result |-> syndrome.result]
         ELSE The({IF ~correction.ok
                   THEN [state |-> probed.state, result |-> correction]
                   ELSE apply_recovery_operation(syndrome.self, correction.value) :
                   correction \in {compute_recovery_operation(
                                      code.recovery_lookup, syndrome.result.value)}}) :
         syndrome \in {compute_error_syndrome(self, code)},
         probed \in {ApplyStabilizer(self, code.stabilizers[1])}})

apply_error_correction(self, code) ==
    The({IF ~syndrome.result.ok
         THEN [state |-> syndrome.self, result |-> syndrome.result]
         ELSE The({IF ~correction.ok
                   THEN [state |-> syndrome.self, result |-> correction]
                   ELSE apply_recovery_operation(syndrome.self, correction.value) :
                   correction \in {compute_recovery_operation(
                                      code.recovery_lookup, syndrome.result.value)}}) :
         syndrome \in {compute_error_syndrome(self, code)}})

(***************************************************************************)
(* NoiseModel.  Rates and uniform samples are in hundredths; a normal      *)
(* sample is thermal_noise_strength times a unit draw, in units of         *)
(* 1 / sqrt(scale) of the state it perturbs.  The thread's generator is a  *)
(* cyclic tape of raw draws with a read position; Uniform and Normal map   *)
(* a raw draw to their sample.                                             *)
(***************************************************************************)
TapeLen == 2

RawDraws == 0..2

Tapes == [0..(TapeLen - 1) -> RawDraws]

thread_rng(tape) == [tape |-> tape, pos |-> 0]

RawAt(rng, k) == rng.tape[(rng.pos + k) % TapeLen]
After(rng, k) == [rng EXCEPT !.pos = rng.pos + k]

\* Uniform::new(0.0, 1.0): the samples 0.0, 0.4 and 0.8.
UniformSample(rng) == 40 * RawAt(rng, 0)
AfterUniform(rng) == After(rng, 1)

\* Normal::new(0.0, strength): the samples -strength, 0 and strength.
NormalAt(self, rng, k) == self.thermal_noise_strength * (RawAt(rng, k) - 1)

NoiseModel_new(decoherence_rate, depolarizing_probability, thermal_noise_strength, correlation_length) ==
    [decoherence_rate |-> decoherence_rate,
     depolarizing_probability |-> depolarizing_probability,
     thermal_noise_strength |-> thermal_noise_strength,
     correlation_length |-> correlation_length,
     spatial_correlations |-> [key \in {} |-> 0]]

Noisy(st, rng, result) == [state |-> st, rng |-> rng, result |-> result]

RECURSIVE DecoherenceLoop(_, _, _, _)
DecoherenceLoop(self, st, i, rng) ==
    IF i >= st.num_qubits THEN Noisy(st, rng, Ok(Unit))
    ELSE IF UniformSample(rng) < self.decoherence_rate
    THEN The({IF ~r.result.ok THEN Noisy(r.state, rng1, r.result)
              ELSE DecoherenceLoop(self, r.state, i + 1, rng1) :
              r \in {apply_gate(st, Gate("PauliZ"), i)}, rng1 \in {AfterUniform(rng)}})
    ELSE The({DecoherenceLoop(self, st, i + 1, rng1) : rng1 \in {AfterUniform(rng)}})

apply_decoherence(self, st, rng) == DecoherenceLoop(self, st, 0, rng)

RECURSIVE DepolarizingLoop(_, _, _, _)
DepolarizingLoop(self, st, i, rng) ==
    IF i >= st.num_qubits THEN Noisy(st, rng, Ok(Unit))
    ELSE IF UniformSample(rng) < self.depolarizing_probability
    THEN The({IF ~r.result.ok THEN Noisy(r.state, rng2, r.result)
              ELSE DepolarizingLoop(self, r.state, i + 1, rng2) :
              r \in {The({apply_gate(st,
                                     IF 3 * x < 100 THEN Gate("PauliX")
                                     ELSE IF 3 * x < 200 THEN Gate("PauliY")
                                     ELSE Gate("PauliZ"),
                                     i) :
                          x \in {UniformSample(AfterUniform(rng))}})},
              rng2 \in {AfterUniform(AfterUniform(rng))}})
    ELSE The({DepolarizingLoop(self, st, i + 1, rng1) : rng1 \in {AfterUniform(rng)}})

apply_depolarizing_noise(self, st, rng) == DepolarizingLoop(self, st, 0, rng)

\* The first loop of apply_thermal_noise: amplitudes[i] += noise, where entry i
\* takes the draws 2i and 2i+1 of the generator.
ThermalLoop(self, amplitudes, rng) ==
    [amplitudes |->
        [i \in DOMAIN amplitudes |->
            CAdd(amplitudes[i],
                 <<NormalAt(self, rng, 2 * i), NormalAt(self, rng, 2 * i + 1)>>)],
     rng |-> After(rng, 2 * Cardinality(DOMAIN amplitudes))]

\* Division of every amplitude by the vector's norm: the new scale is the sum
\* of squares; a zero norm divides 0.0 by 0.0 and leaves NaN in every entry.
Renormalized(st, amplitudes) ==
    IF st.nan THEN st
    ELSE The({IF norm2 = 0
              THEN [st EXCEPT !.amplitudes = amplitudes, !.nan = TRUE]
              ELSE The({Reduced(divided) :
                        divided \in {[st EXCEPT !.amplitudes = amplitudes,
                                                !.scale = norm2]}}) :
              norm2 \in {SumSq(amplitudes)}})

apply_thermal_noise(self, st, rng) ==
    The({Noisy(Renormalized(st, perturbed.amplitudes), perturbed.rng, Ok(Unit)) :
         perturbed \in {ThermalLoop(self, st.amplitudes, rng)}})

\* exp(-distance / correlation_length) in hundredths, for the lengths 0
\* (exp of minus infinity) and 1 that the model draws.
ExpNegTable == <<36, 13, 4, 1>>

ExpNeg(dist, length) ==
    IF length = 0 \/ dist \div length > Len(ExpNegTable) THEN 0
    ELSE ExpNegTable[dist \div length]

get_spatial_correlation(self, i, j) ==
    LET key == IF i < j THEN <<i, j>> ELSE <<j, i>>
    IN  IF key \in DOMAIN self.spatial_correlations
        THEN self.spatial_correlations[key]
        ELSE ExpNeg(IF i < j THEN j - i ELSE i - j, self.correlation_length)

RECURSIVE CorrelatedLoop(_, _, _, _, _)
CorrelatedLoop(self, st, i, j, rng) ==
    IF i >= st.num_qubits THEN Noisy(st, rng, Ok(Unit))
    ELSE IF j >= st.num_qubits THEN CorrelatedLoop(self, st, i + 1, i + 2, rng)
    ELSE IF UniformSample(rng) < get_spatial_correlation(self, i, j)
    THEN The({The({IF ~r1.result.ok THEN Noisy(r1.state, rng2, r1.result)
                   ELSE The({IF ~r2.result.ok THEN Noisy(r2.state, rng2, r2.result)
                             ELSE CorrelatedLoop(self, r2.state, i, j + 1, rng2) :
                             r2 \in {apply_gate(r1.state, gate, j)}}) :
                   r1 \in {apply_gate(st, gate, i)}}) :
              gate \in {IF 2 * UniformSample(AfterUniform(rng)) < 100
                        THEN Gate("PauliX") ELSE Gate("PauliZ")},
              rng2 \in {AfterUniform(AfterUniform(rng))}})
    ELSE The({CorrelatedLoop(self, st, i, j + 1, rng1) : rng1 \in {AfterUniform(rng)}})

apply_correlated_noise(self, st, rng) == CorrelatedLoop(self, st, 0, 1, rng)

apply_noise(self, st, rng) ==
    The({IF ~a.result.ok THEN a
         ELSE The({IF ~b.result.ok THEN b
                   ELSE The({IF ~c.result.ok THEN c
                             ELSE apply_correlated_noise(self, c.state, c.rng) :
                             c \in {apply_thermal_noise(self, b.state, b.rng)}}) :
                   b \in {apply_depolarizing_noise(self, a.state, a.rng)}}) :
         a \in {apply_decoherence(self, st, rng)}})

(***************************************************************************)
(* measure in the computational basis: an outcome of positive probability  *)
(* is drawn, the state collapses onto it and the outcome is recorded.      *)
(***************************************************************************)
Outcomes(st) ==
    IF st.nan THEN {} ELSE {i \in DOMAIN st.amplitudes : norm_sqr(st.amplitudes[i]) > 0}

measure_computational(st, outcome) ==
    [state |-> [st EXCEPT
                  !.amplitudes = [i \in DOMAIN st.amplitudes |->
                                    IF i = outcome THEN <<1, 0>> ELSE CZero],
                  !.scale = 1],
     result |-> Ok([basis |-> "Computational", outcome |-> outcome])]

measure(st, basis, outcome) ==
    The({IF ~m.result.ok THEN m
         ELSE [state |-> [m.state EXCEPT !.measurement_history =
                             Append(m.state.measurement_history, m.result.value)],
               result |-> m.result] :
         m \in {measure_computational(st, outcome)}})

(***************************************************************************)
(* The code under construction and in use: the loop of                     *)
(* precompute_recovery_operations one iteration at a time, then lookups.   *)
(***************************************************************************)
NoRegister == "none"

\* An ErrorSyndrome holding the given bits, built with new and set_bit.
RECURSIVE SetBits(_, _, _)
SetBits(syndrome, bitvec, index) ==
    IF index >= Len(bitvec) THEN syndrome
    ELSE SetBits(set_bit(syndrome, index, bitvec[index + 1] = 1), bitvec, index + 1)

SyndromeOfBits(bitvec) == SetBits(ErrorSyndrome_new(Len(bitvec)), bitvec, 0)

\* Every error pattern of weight 0..distance-1 over the code's qubits.
LowWeightErrors ==
    UNION {[S -> PauliOperator] :
             S \in {T \in SUBSET (0..(CodeQubits - 1)) : Cardinality(T) <= distance - 1}}

EnumeratedErrors ==
    {enumerate_likely_errors[k] : k \in 1..Len(enumerate_likely_errors)}

BitVecs(size) == [1..size -> {0, 1}]

SyndromeInputs ==
    {SyndromeOfBits(b) :
       b \in UNION {BitVecs(size) : size \in {Len(stabilizers) - 1, Len(stabilizers),
                                              Len(stabilizers) + 1}}}

PrecomputeDone == loop_i > Len(enumerate_likely_errors)

InitCode ==
    /\ recovery_lookup = EmptyLookup
    /\ loop_i = 1
    /\ qs = NoRegister
    /\ noise_model = NoRegister
    /\ ret = [op |-> "new_steane_code"]
    /\ ops = 0

PrecomputeStep ==
    /\ ~PrecomputeDone
    /\ recovery_lookup' =
          precompute_step(recovery_lookup, enumerate_likely_errors[loop_i])
    /\ loop_i' = loop_i + 1
    /\ ret' = [op |-> "precompute", error |-> enumerate_likely_errors[loop_i]]
    /\ UNCHANGED <<qs, noise_model, ops>>

\* compute_recovery_operation on a caller's syndrome.
Decode ==
    /\ PrecomputeDone
    /\ \E syndrome \in SyndromeInputs :
          ret' = [op |-> "decode", syndrome |-> syndrome,
                  result |-> compute_recovery_operation(recovery_lookup, syndrome)]
    /\ UNCHANGED <<recovery_lookup, loop_i, qs, noise_model, ops>>

\* compute_recovery_operation on the syndrome of a low-weight error.
DecodeError ==
    /\ PrecomputeDone
    /\ \E error \in LowWeightErrors :
          ret' = [op |-> "decode_error", error |-> error,
                  result |-> compute_recovery_operation(
                                 recovery_lookup,
                                 SyndromeOfBits(compute_syndrome_for_error(error)))]
    /\ UNCHANGED <<recovery_lookup, loop_i, qs, noise_model, ops>>

NextCode == PrecomputeStep \/ Decode \/ DecodeError

SpecCode == InitCode /\ [][NextCode]_vars

(***************************************************************************)
(* Properties of the recovery table.                                       *)
(***************************************************************************)
ZeroSyndrome == [k \in 1..Len(stabilizers) |-> 0]

\* The product of two Pauli patterns, qubit by qubit, up to phase.
Compose(e, r) ==
    LET both == DOMAIN e \cap DOMAIN r
        live == (DOMAIN e \cup DOMAIN r) \ {q \in both : e[q] = r[q]}
    IN  [q \in live |->
            IF q \in both THEN CHOOSE p \in PauliOperator : p # e[q] /\ p # r[q]
            ELSE IF q \in DOMAIN e THEN e[q] ELSE r[q]]

\* C1: for every enumerated error e, decoding the syndrome of e succeeds and
\* the recovery r makes e followed by r have the all-zero syndrome.
C1_RoundTrip ==
    (ret.op = "decode_error" /\ ret.error \in EnumeratedErrors) =>
        /\ ret.result.ok
        /\ compute_syndrome_for_error(Compose(ret.error, ret.result.value))
             = ZeroSyndrome

\* C2: the syndrome of every error of weight 0..distance-1 over the code's
\* seven qubits is a key of the table, so decoding it never fails.
C2_Coverage ==
    ret.op = "decode_error" =>
        /\ compute_syndrome_for_error(ret.error) \in DOMAIN recovery_lookup
        /\ ret.result.ok

\* C6: a lookup returns the stored recovery for a syndrome that is a key and
\* Err(UnknownSyndrome) for every other syndrome, never a default, and it
\* leaves the table as it was.
C6_StateOk ==
    ret.op = "decode" =>
        LET key == [k \in 1..ret.syndrome.size |->
                      IF ret.syndrome.bits[k] THEN 1 ELSE 0]
        IN  IF key \in DOMAIN recovery_lookup
            THEN ret.result = [ok |-> TRUE, value |-> recovery_lookup[key]]
            ELSE ret.result = [ok |-> FALSE, err |-> "UnknownSyndrome"]

C6_TableKept == ret'.op = "decode" => recovery_lookup' = recovery_lookup

\* C6: both parts together: the answer of every lookup is the stored entry or
\* Err(UnknownSyndrome), and no lookup changes the table.
C6_NeverGuesses == [](C6_StateOk) /\ [][C6_TableKept]_vars

C6_Witness ==
    /\ ret.op = "decode"
    /\ ret.syndrome.size = Len(stabilizers)
    /\ to_bitvec(ret.syndrome) \notin DOMAIN recovery_lookup
    /\ ~ret.result.ok

\* C9: once the table is built, the all-zero syndrome of length 4 decodes
\* successfully to the identity recovery (no Pauli on any qubit).
C9_ZeroSyndrome ==
    (ret.op = "decode" /\ ret.syndrome = ErrorSyndrome_new(Len(stabilizers))) =>
        /\ ret.result.ok
        /\ DOMAIN ret.result.value = {}

C9_Witness ==
    /\ ret.op = "decode"
    /\ ret.syndrome = ErrorSyndrome_new(Len(stabilizers))
    /\ ret.result.ok

\* C10: an entry of the table, once inserted, is never overwritten or
\* removed; errors are processed in non-decreasing weight order; so each
\* stored recovery is the first processed error with its syndrome and has
\* minimum weight among the processed errors with that syndrome.
Processed == 1..(loop_i - 1)

C10_NoOverwrite ==
    \A key \in DOMAIN recovery_lookup :
        /\ key \in DOMAIN recovery_lookup'
        /\ recovery_lookup'[key] = recovery_lookup[key]

C10_WeightOrder ==
    \A i \in Processed : \A j \in 1..Len(enumerate_likely_errors) :
        i <= j => Weight(enumerate_likely_errors[i]) <= Weight(enumerate_likely_errors[j])

C10_FirstAndMinimal ==
    /\ DOMAIN recovery_lookup =
          {compute_syndrome_for_error(enumerate_likely_errors[i]) : i \in Processed}
    /\ \A key \in DOMAIN recovery_lookup :
          LET same == {i \in Processed :
                         compute_syndrome_for_error(enumerate_likely_errors[i]) = key}
              first == CHOOSE i \in same : \A j \in same : i <= j
          IN  /\ recovery_lookup[key] = enumerate_likely_errors[first]
              /\ \A j \in same :
                    Weight(recovery_lookup[key]) <= Weight(enumerate_likely_errors[j])

\* C10: no entry is overwritten, the processing order is by weight, and each
\* entry is the first and a minimum-weight error for its syndrome.
C10_FirstWins ==
    [][C10_NoOverwrite]_vars /\ [](C10_WeightOrder /\ C10_FirstAndMinimal)

\* A collision: the loop has met a second error with an already stored syndrome.
C10_Witness ==
    /\ PrecomputeDone
    /\ \E i \in Processed :
          recovery_lookup[compute_syndrome_for_error(enumerate_likely_errors[i])]
             # enumerate_likely_errors[i]

(***************************************************************************)
(* The register in use: the public operations of QuantumState and          *)
(* NoiseModel, and the probes of the correction pipeline, on a register    *)
(* created by QuantumState::new, with the code new_steane_code returned.   *)
(* `ret` records the last call: its inputs, the state it was made on and   *)
(* its result; `ops` counts the calls made on the register.                 *)
(***************************************************************************)
MaxQubits == 2
MaxOps == 2

NoiseModels ==
    { NoiseModel_new(0, 0, 0, 0),
      NoiseModel_new(0, 100, 0, 0),
      NoiseModel_new(0, 0, 1, 0),
      NoiseModel_new(50, 50, 1, 1) }

SteaneCode == [stabilizers |-> stabilizers, recovery_lookup |-> recovery_lookup]

PauliGates == {Gate("PauliX"), Gate("PauliY"), Gate("PauliZ")}

\* Every gate on a register of n qubits, with controls in and out of range.
AllGates(n) ==
    PauliGates \cup {Gate("Hadamard")} \cup {Phase(phi) : phi \in 0..3}
        \cup {CNOT(control) : control \in 0..n}

\* Stabilizers of one Pauli type on one or two of the qubits 0..n (n is out
\* of range).
SmallStabilizers(n) ==
    {<<<<a, p>>>> : a \in 0..n, p \in PauliOperator}
        \cup {<<<<a, p>>, <<b, p>>>> : a \in 0..n, b \in 0..n, p \in PauliOperator}

InitRegister(sizes, models) ==
    /\ recovery_lookup = precompute_recovery_operations
    /\ loop_i = Len(enumerate_likely_errors) + 1
    /\ \E n \in sizes : qs = QuantumState_new(n)
    /\ noise_model \in models
    /\ ret = [op |-> "new"]
    /\ ops = 0

ApplyGate(gates, bound) ==
    /\ ops < bound
    /\ \E gate \in gates, target \in 0..qs.num_qubits :
          /\ ~(gate.kind = "CNOT" /\ gate.control = target)
          /\ \E r \in {apply_gate(qs, gate, target)} :
                 /\ qs' = r.state
                 /\ ret' = [op |-> "apply_gate", gate |-> gate, target |-> target,
                            before |-> qs, result |-> r.result]
    /\ ops' = ops + 1
    /\ UNCHANGED <<recovery_lookup, loop_i, noise_model>>

Measure ==
    /\ ops < MaxOps
    /\ \E outcome \in Outcomes(qs) :
          \E r \in {measure(qs, "Computational", outcome)} :
              /\ qs' = r.state
              /\ ret' = [op |-> "measure", before |-> qs, result |-> r.result]
    /\ ops' = ops + 1
    /\ UNCHANGED <<recovery_lookup, loop_i, noise_model>>

ApplyNoise ==
    /\ ops < MaxOps
    /\ \E tape \in Tapes :
          \E r \in {apply_noise(noise_model, qs, thread_rng(tape))} :
              /\ qs' = r.state
              /\ ret' = [op |-> "apply_noise", before |-> qs, result |-> r.result]
    /\ ops' = ops + 1
    /\ UNCHANGED <<recovery_lookup, loop_i, noise_model>>

ApplyErrorCorrection(bound) ==
    /\ ops < bound
    /\ \E r \in {apply_error_correction(qs, SteaneCode)} :
           /\ qs' = r.state
           /\ ret' = [op |-> "apply_error_correction", before |-> qs,
                      result |-> r.result]
    /\ ops' = ops + 1
    /\ UNCHANGED <<recovery_lookup, loop_i, noise_model>>

MeasureStabilizer(inputs, bound) ==
    /\ ops < bound
    /\ \E stabilizer \in inputs :
          \E r \in {measure_stabilizer(qs, stabilizer)} :
              /\ qs' = r.self
              /\ ret' = [op |-> "measure_stabilizer", stabilizer |-> stabilizer,
                         before |-> qs, result |-> r.result]
    /\ ops' = ops + 1
    /\ UNCHANGED <<recovery_lookup, loop_i, noise_model>>

ComputeErrorSyndrome(bound) ==
    /\ ops < bound
    /\ \E r \in {compute_error_syndrome(qs, SteaneCode)} :
           /\ qs' = r.self
           /\ ret' = [op |-> "compute_error_syndrome", before |-> qs,
                      result |-> r.result]
    /\ ops' = ops + 1
    /\ UNCHANGED <<recovery_lookup, loop_i, noise_model>>

Init == InitRegister(1..MaxQubits, NoiseModels)

Next ==
    \/ ApplyGate(AllGates(qs.num_qubits), MaxOps)
    \/ Measure
    \/ ApplyNoise
    \/ ApplyErrorCorrection(MaxOps)
    \/ MeasureStabilizer(SmallStabilizers(qs.num_qubits), MaxOps)
    \/ ComputeErrorSyndrome(MaxOps)

Spec == Init /\ [][Next]_vars

\* The seven-qubit register of the Steane code under Pauli and Hadamard
\* gates and thermal noise, probed with the code's own stabilizers, its
\* logical operators and the single Paulis on qubit 0 and on qubit 7, which
\* is out of range.
SteaneProbes ==
    {stabilizers[s] : s \in 1..Len(stabilizers)}
        \cup {logical_operators[s] : s \in 1..Len(logical_operators)}
        \cup {<<<<a, p>>>> : a \in {0, CodeQubits}, p \in PauliOperator}

InitSteane == InitRegister({CodeQubits}, {NoiseModel_new(0, 0, 1, 0)})

NextSteane ==
    \/ ApplyGate(PauliGates \cup {Gate("Hadamard")}, MaxOps)
    \/ ApplyNoise
    \/ ApplyErrorCorrection(MaxOps)
    \/ MeasureStabilizer(SteaneProbes, MaxOps)
    \/ ComputeErrorSyndrome(MaxOps)

SpecSteane == InitSteane /\ [][NextSteane]_vars

(***************************************************************************)
(* Properties of the register.                                             *)
(***************************************************************************)
\* The two states have the same amplitudes up to one factor i^k.
EqualUpToPhase(a, b) ==
    /\ ~a.nan /\ ~b.nan
    /\ a.num_qubits = b.num_qubits
    /\ a.scale = b.scale
    /\ \E k \in 0..3 :
          \A i \in DOMAIN a.amplitudes :
              a.amplitudes[i] = CMulIPow(b.amplitudes[i], k)

FreshCodeRegister == QuantumState_new(CodeQubits)

\* The fresh seven-qubit state after a Pauli-X error on qubit 0.
XErrorOnQubit0 ==
    [FreshCodeRegister EXCEPT !.amplitudes =
        [i \in DOMAIN FreshCodeRegister.amplitudes |->
            IF i = 1 THEN <<1, 0>> ELSE <<0, 0>>]]

\* C3: on the fresh 7-qubit state with a single Pauli-X error on qubit 0,
\* apply_error_correction with the Steane code succeeds and leaves the
\* pre-noise amplitude vector, up to a global phase.
C3_Scenario ==
    (ret.op = "apply_error_correction" /\ ret.before = XErrorOnQubit0) =>
        /\ ret.result.ok
        /\ EqualUpToPhase(qs, FreshCodeRegister)

\* The overlap of the Pauli-applied copy of `state` with `state`.
ProbeOverlap(state, stabilizer) ==
    compute_overlap(ApplyStabilizer(state, stabilizer).state, state).value

ProbeReturnedBit == ret.op = "measure_stabilizer" /\ ret.result.ok

\* C4: measure_stabilizer returns false (even parity) when the real part of
\* the overlap is non-negative, zero included, and true (odd parity) exactly
\* when that real part is negative.
C4_Parity ==
    ProbeReturnedBit =>
        \E overlap \in {ProbeOverlap(ret.before, ret.stabilizer)} :
            ret.result.value = (~overlap.nan /\ overlap.re < 0)

\* C5: measure_stabilizer, and compute_error_syndrome over the stabilizers of
\* a code, leave the probed state (amplitudes, num_qubits and
\* measurement_history) exactly unchanged, whether they return a value or
\* an error.
C5_NonDestructive ==
    ret.op \in {"measure_stabilizer", "compute_error_syndrome"} =>
        /\ qs.amplitudes = ret.before.amplitudes
        /\ qs.scale = ret.before.scale
        /\ qs.nan = ret.before.nan
        /\ qs.num_qubits = ret.before.num_qubits
        /\ qs.measurement_history = ret.before.measurement_history

\* A probe that returned a bit after its Paulis changed the copy.
C5_Witness ==
    /\ ProbeReturnedBit
    /\ ApplyStabilizer(ret.before, ret.stabilizer).state.amplitudes
          # ret.before.amplitudes
    /\ qs = ret.before

\* C7: apply_gate returns Err(InvalidQubitIndex) and leaves the amplitude
\* vector unchanged whenever the target, or the control of a CNOT gate, is
\* >= num_qubits.
IndexOutOfRange ==
    /\ ret.op = "apply_gate"
    /\ \/ ret.target >= ret.before.num_qubits
       \/ ret.gate.kind = "CNOT" /\ ret.gate.control >= ret.before.num_qubits

UnitNorm(state) == ~state.nan /\ SumSq(state.amplitudes) = state.scale

\* C8: the state left by every public operation has unit norm.
C8_Norm ==
    ret.op \in {"apply_gate", "measure", "apply_noise", "apply_error_correction"} =>
        UnitNorm(qs)

\* The unordered pairs {i, j} that apply_correlated_noise looks up on a
\* register of n qubits, as the keys get_spatial_correlation would use.
LookedUpPairs(n) == {pair \in (0..(n - 1)) \X (0..(n - 1)) : pair[1] < pair[2]}

\* C11: once apply_noise has returned Ok, every pair its correlated-noise
\* pass has looked up is a key of spatial_correlations and the stored
\* value is the coefficient exp(-|i-j| / correlation_length) of that pair.
C11_Cached ==
    (ret.op = "apply_noise" /\ ret.result.ok) =>
        \A pair \in LookedUpPairs(ret.before.num_qubits) :
            /\ pair \in DOMAIN noise_model.spatial_correlations
            /\ noise_model.spatial_correlations[pair] =
                  ExpNeg(pair[2] - pair[1], noise_model.correlation_length)

(***************************************************************************)
(* The correction pipeline on a register too small for the code and on the *)
(* code's seven-qubit register, after Pauli and Hadamard gates and thermal *)
(* noise.                                                                  *)
(***************************************************************************)
InitCorrection == InitRegister({MaxQubits, CodeQubits}, {NoiseModel_new(0, 0, 1, 0)})

NextCorrection ==
    \/ ApplyGate(PauliGates \cup {Gate("Hadamard")}, MaxOps)
    \/ ApplyNoise
    \/ ApplyErrorCorrection(MaxOps)

SpecCorrection == InitCorrection /\ [][NextCorrection]_vars

\* The call failed before any recovery was applied: the syndrome is not a
\* key of the table, or a probe of the syndrome measurement named a qubit
\* out of range.
FailedBeforeRecovery ==
    /\ ret.op = "apply_error_correction"
    /\ ~ret.result.ok
    /\ \/ ret.result.err = "UnknownSyndrome"
       \/ /\ ret.result.err = "InvalidQubitIndex"
          /\ ~compute_error_syndrome(ret.before, SteaneCode).result.ok

\* C12: when apply_error_correction fails with UnknownSyndrome, or with
\* InvalidQubitIndex during the syndrome measurement, the amplitudes and
\* the measurement_history are what they were before the call.
C12_FailedCorrectionNoEffect ==
    FailedBeforeRecovery =>
        /\ qs.amplitudes = ret.before.amplitudes
        /\ qs.scale = ret.before.scale
        /\ qs.nan = ret.before.nan
        /\ qs.measurement_history = ret.before.measurement_history

\* A correction of the code's own register that failed on a syndrome the
\* table does not hold.
C12_Witness ==
    /\ FailedBeforeRecovery
    /\ ret.result.err = "UnknownSyndrome"
    /\ ret.before.num_qubits = CodeQubits
    /\ ~ret.before.nan

\* A correction that failed in the syndrome measurement on a short register.
C12_ShortRegister ==
    /\ FailedBeforeRecovery
    /\ ret.result.err = "InvalidQubitIndex"
    /\ ret.before.num_qubits < CodeQubits

====
